---- MODULE Spec2Model ----
(***************************************************************************)
(* The label verification engine of backend/utils/verification.py as a     *)
(* call/return state machine.  The engine is a library of pure functions:  *)
(* a state holds the arguments of one call (args), the function that was   *)
(* called (called), where the call stands (pc) and what it returned (ret). *)
(* The /api/verify handler of backend/app.py is a second state machine on  *)
(* the same variables, one run per request, with the upload folder         *)
(* (uploads) and the local variables of each run (locals); the engine's    *)
(* specifications leave these two empty.                                   *)
(*                                                                         *)
(* A Python str is a sequence of one-character strings, so that the        *)
(* regular expressions, str.lower, str.split, the `in` operator and        *)
(* difflib.SequenceMatcher are computed character by character.  The       *)
(* characters are ASCII; a float is an exact decimal (the numbers of the    *)
(* checked inputs are decimals on which the binary comparison and the      *)
(* exact one agree).                                                       *)
(***************************************************************************)
EXTENDS Integers, Sequences, FiniteSets, TLC

VARIABLES args, called, pc, ret, uploads, locals

vars == <<args, called, pc, ret, uploads, locals>>

(***************************************************************************)
(* Characters and the str methods the engine uses.                         *)
(***************************************************************************)
UpperLetters ==
    <<"A", "B", "C", "D", "E", "F", "G", "H", "I", "J", "K", "L", "M",
      "N", "O", "P", "Q", "R", "S", "T", "U", "V", "W", "X", "Y", "Z">>

LowerLetters ==
    <<"a", "b", "c", "d", "e", "f", "g", "h", "i", "j", "k", "l", "m",
      "n", "o", "p", "q", "r", "s", "t", "u", "v", "w", "x", "y", "z">>

Digits == {"0", "1", "2", "3", "4", "5", "6", "7", "8", "9"}

\* \s of the re module, on ASCII
Whitespace == {" ", "\t", "\n", "\r", "\f"}

IsDigit(c) == c \in Digits

IsSpace(c) == c \in Whitespace

IsLowerLetter(c) == \E i \in 1..26 : LowerLetters[i] = c

LowerChar(c) ==
    IF \E i \in 1..26 : UpperLetters[i] = c
    THEN LowerLetters[CHOOSE i \in 1..26 : UpperLetters[i] = c]
    ELSE c

UpperChar(c) ==
    IF \E i \in 1..26 : LowerLetters[i] = c
    THEN UpperLetters[CHOOSE i \in 1..26 : LowerLetters[i] = c]
    ELSE c

\* None is no str: its one element is not a character
None == <<"None">>

\* `if x:` for a str or None
Truthy(x) == x # None /\ Len(x) > 0

\* str.lower()
lower(s) == [i \in 1..Len(s) |-> LowerChar(s[i])]

\* str.upper()
upper(s) == [i \in 1..Len(s) |-> UpperChar(s[i])]

\* s[i:j] of Python, with 1-based inclusive positions lo..hi
Slice(s, lo, hi) == [k \in 1..(hi - lo + 1) |-> s[lo + k - 1]]

\* t occurs in s at position i (the first character of the occurrence)
OccursAt(s, t, i) ==
    /\ i >= 1
    /\ i + Len(t) - 1 <= Len(s)
    /\ \A j \in 1..Len(t) : s[i + j - 1] = t[j]

\* the `in` operator on two strings: needle in haystack
In(needle, haystack) ==
    \E i \in 1..(Len(haystack) - Len(needle) + 1) : OccursAt(haystack, needle, i)

\* str.strip()
strip(s) ==
    LET keep == {i \in 1..Len(s) : ~IsSpace(s[i])}
    IN  IF keep = {} THEN <<>>
        ELSE LET lo == CHOOSE i \in keep : \A j \in keep : i <= j
                 hi == CHOOSE i \in keep : \A j \in keep : j <= i
             IN  Slice(s, lo, hi)

\* str.split(): the maximal runs of non-whitespace characters, in order
RECURSIVE SplitFrom(_, _)
SplitFrom(s, i) ==
    LET starts == {j \in i..Len(s) : ~IsSpace(s[j])}
    IN  IF starts = {} THEN <<>>
        ELSE LET lo     == CHOOSE j \in starts : \A k \in starts : j <= k
                 spaces == {j \in lo..Len(s) : IsSpace(s[j])}
                 hi     == IF spaces = {} THEN Len(s)
                           ELSE (CHOOSE j \in spaces : \A k \in spaces : j <= k) - 1
             IN  <<Slice(s, lo, hi)>> \o SplitFrom(s, hi + 1)

split(s) == SplitFrom(s, 1)

\* ' '.join(words)
RECURSIVE join(_)
join(words) ==
    IF Len(words) = 0 THEN <<>>
    ELSE IF Len(words) = 1 THEN words[1]
    ELSE words[1] \o <<" ">> \o join(Tail(words))

(***************************************************************************)
(* normalize_text                                                          *)
(***************************************************************************)
\* re.sub(r'\s+', ' ', text): every maximal run of whitespace becomes one space
\* (the first character of a run stays, as one space; the rest of the run goes)
CollapseWhitespace(s) ==
    LET first == SelectSeq([i \in 1..Len(s) |-> i],
                           LAMBDA i : ~IsSpace(s[i]) \/ i = 1 \/ ~IsSpace(s[i - 1]))
    IN  [k \in 1..Len(first) |-> IF IsSpace(s[first[k]]) THEN " " ELSE s[first[k]]]

\* the class [a-z0-9\s%.\-/] whose complement is removed
Kept(c) ==
    \/ IsLowerLetter(c)
    \/ IsDigit(c)
    \/ IsSpace(c)
    \/ c \in {"%", ".", "-", "/"}

\* re.sub(r'[^a-z0-9\s%.\-/]', '', text)
RemoveSpecial(s) == SelectSeq(s, Kept)

\* normalize_text without its text.lower(): the capitals are removed as special
\* characters
normalize_text_no_lower(text) ==
    IF ~Truthy(text) THEN <<>>
    ELSE strip(RemoveSpecial(CollapseWhitespace(text)))

normalize_text(text) ==
    IF ~Truthy(text) THEN <<>>
    ELSE strip(RemoveSpecial(CollapseWhitespace(lower(text))))

(***************************************************************************)
(* fuzzy_match: difflib.SequenceMatcher(None, text1, text2).ratio()        *)
(***************************************************************************)
\* the length of the common run of a from i and b from j, inside a[..ahi], b[..bhi]
RECURSIVE RunLen(_, _, _, _, _, _)
RunLen(a, i, ahi, b, j, bhi) ==
    IF i > ahi \/ j > bhi THEN 0
    ELSE IF a[i] # b[j] THEN 0
    ELSE 1 + RunLen(a, i + 1, ahi, b, j + 1, bhi)

SetMax(S) == CHOOSE x \in S : \A y \in S : y <= x

SetMin(S) == CHOOSE x \in S : \A y \in S : x <= y

\* find_longest_match(alo, ahi, blo, bhi): the longest common block, of those
\* the one that starts earliest in a, and of those the one earliest in b
\* (no junk: autojunk only acts on a second string of 200 characters or more)
find_longest_match(a, alo, ahi, b, blo, bhi) ==
    LET k  == SetMax({RunLen(a, i, ahi, b, j, bhi) : i \in alo..ahi, j \in blo..bhi})
        bi == SetMin({i \in alo..ahi :
                        \E j \in blo..bhi : RunLen(a, i, ahi, b, j, bhi) = k})
        bj == SetMin({j \in blo..bhi : RunLen(a, bi, ahi, b, j, bhi) = k})
    IN  [i |-> bi, j |-> bj, size |-> k]

\* the sum of the sizes of get_matching_blocks()
RECURSIVE MatchingSize(_, _, _, _, _, _)
MatchingSize(a, alo, ahi, b, blo, bhi) ==
    IF alo > ahi \/ blo > bhi THEN 0
    ELSE LET m == find_longest_match(a, alo, ahi, b, blo, bhi)
         IN  IF m.size = 0 THEN 0
             ELSE m.size
                  + MatchingSize(a, alo, m.i - 1, b, blo, m.j - 1)
                  + MatchingSize(a, m.i + m.size, ahi, b, m.j + m.size, bhi)

\* ratio() >= threshold, the threshold in hundredths: 2.0 * matches / length,
\* and 1.0 when both strings are empty
fuzzy_match(text1, text2, threshold) ==
    LET matches == MatchingSize(text1, 1, Len(text1), text2, 1, Len(text2))
        length  == Len(text1) + Len(text2)
    IN  IF length = 0 THEN 100 >= threshold
        ELSE 200 * matches >= threshold * length

(***************************************************************************)
(* contains_text                                                           *)
(***************************************************************************)
\* contains_text without its exact substring check: only the fuzzy windows decide
contains_text_fuzzy_only(haystack, needle, fuzzy, threshold) ==
    LET haystack_norm == normalize_text(haystack)
        needle_norm   == normalize_text(needle)
        words         == split(haystack_norm)
        needle_len    == Len(split(needle_norm))
    IN  /\ fuzzy
        /\ \E i \in 1..(Len(words) - needle_len + 1) :
              fuzzy_match(join(SubSeq(words, i, i + needle_len - 1)),
                          needle_norm, threshold)

contains_text(haystack, needle, fuzzy, threshold) ==
    LET haystack_norm == normalize_text(haystack)
        needle_norm   == normalize_text(needle)
    IN  IF In(needle_norm, haystack_norm) THEN TRUE
        ELSE IF fuzzy
        THEN LET words      == split(haystack_norm)
                 needle_len == Len(split(needle_norm))
             IN  \E i \in 1..(Len(words) - needle_len + 1) :
                    fuzzy_match(join(SubSeq(words, i, i + needle_len - 1)),
                                needle_norm, threshold)
        ELSE FALSE

(***************************************************************************)
(* Values: a verdict, a float.                                             *)
(***************************************************************************)
\* the dict {'field': ..., 'status': ..., 'message': ...}; the message is its
\* template, without the interpolated form value
Verdict(field, status, message) == <<field, status, message>>

Field(v) == v[1]

Status(v) == v[2]

Message(v) == v[3]

\* A float is a decimal [neg, ip, fp]: its sign, the digits before the point
\* without leading zeros and the digits after it without trailing zeros, so
\* that equal numbers are equal values.  The arithmetic is exact and on digit
\* sequences of any length.
Decimal(neg, ip, fp) ==
    [error |-> FALSE, nan |-> FALSE, neg |-> neg, ip |-> ip, fp |-> fp]

\* what float(s) raises for a string that is no number
ValueError == [error |-> TRUE, nan |-> FALSE, neg |-> FALSE, ip |-> <<>>, fp |-> <<>>]

\* float("nan"): the float that is no number, of which every comparison is False
NaN == [error |-> FALSE, nan |-> TRUE, neg |-> FALSE, ip |-> <<>>, fp |-> <<>>]

IsValueError(x) == x.error

DigitValue(c) == CHOOSE d \in 0..9 : <<"0", "1", "2", "3", "4", "5", "6", "7", "8", "9">>[d + 1] = c

\* the digits of a string of digit characters
DigitsOf(ds) == [i \in 1..Len(ds) |-> DigitValue(ds[i])]

RECURSIVE DropLeadingZeros(_)
DropLeadingZeros(x) ==
    IF Len(x) > 0 /\ x[1] = 0 THEN DropLeadingZeros(Tail(x)) ELSE x

RECURSIVE DropTrailingZeros(_)
DropTrailingZeros(x) ==
    IF Len(x) > 0 /\ x[Len(x)] = 0 THEN DropTrailingZeros(SubSeq(x, 1, Len(x) - 1)) ELSE x

\* the decimal of a sign and two digit strings
MakeDecimal(minus, whole, frac) ==
    LET ip == DropLeadingZeros(DigitsOf(whole))
        fp == DropTrailingZeros(DigitsOf(frac))
    IN  Decimal(minus /\ Len(ip) + Len(fp) > 0, ip, fp)

\* the last position of the run of digits that starts at i (i - 1: no digit at i)
RECURSIVE DigitsEnd(_, _)
DigitsEnd(s, i) ==
    IF i <= Len(s) /\ IsDigit(s[i]) THEN DigitsEnd(s, i + 1) ELSE i - 1

\* float(s) for the strings of the checked inputs: whitespace is stripped, then
\* an optional sign, then "nan" in any case, or digits with an optional point
\* (at least one digit).  Exponents, underscores and "inf" are not drawn by any
\* input set.
float(s) ==
    LET t      == strip(s)
        signed == Len(t) > 0 /\ t[1] \in {"+", "-"}
        u      == IF signed THEN Tail(t) ELSE t
        e1     == DigitsEnd(u, 1)
        dot    == e1 + 1 <= Len(u) /\ u[e1 + 1] = "."
        e2     == IF dot THEN DigitsEnd(u, e1 + 2) ELSE e1
        whole  == SubSeq(u, 1, e1)
        frac   == IF dot THEN SubSeq(u, e1 + 2, e2) ELSE <<>>
    IN  IF lower(u) = <<"n", "a", "n">> THEN NaN
        ELSE IF Len(u) = 0 \/ e2 # Len(u) \/ Len(whole) + Len(frac) = 0 THEN ValueError
        ELSE MakeDecimal(signed /\ t[1] = "-", whole, frac)

Larger(m, n) == IF m >= n THEN m ELSE n

\* the digits of a decimal written with il digits before the point and fl after
Written(a, il, fl) ==
    [i \in 1..(il + fl) |->
        IF i <= il
        THEN (IF i <= il - Len(a.ip) THEN 0 ELSE a.ip[i - (il - Len(a.ip))])
        ELSE (IF i - il <= Len(a.fp) THEN a.fp[i - il] ELSE 0)]

\* x < y for two digit sequences of one length
DigitsLess(x, y) ==
    \E i \in 1..Len(x) : x[i] < y[i] /\ \A j \in 1..(i - 1) : x[j] = y[j]

\* the carry into position i - 1 of x + y
RECURSIVE Carry(_, _, _)
Carry(x, y, i) ==
    IF i > Len(x) THEN 0 ELSE (x[i] + y[i] + Carry(x, y, i + 1)) \div 10

\* x + y, one digit longer
DigitsSum(x, y) ==
    [i \in 1..(Len(x) + 1) |->
        IF i = 1 THEN Carry(x, y, 1)
        ELSE (x[i - 1] + y[i - 1] + Carry(x, y, i)) % 10]

\* the borrow from position i - 1 of x - y
RECURSIVE Borrow(_, _, _)
Borrow(x, y, i) ==
    IF i > Len(x) THEN 0
    ELSE IF x[i] - y[i] - Borrow(x, y, i + 1) < 0 THEN 1 ELSE 0

\* x - y for x >= y, with a leading 0 to be as long as a sum
DigitsDifference(x, y) ==
    [i \in 1..(Len(x) + 1) |->
        IF i = 1 THEN 0
        ELSE (x[i - 1] - y[i - 1] - Borrow(x, y, i) + 10) % 10]

\* abs(a - b)
AbsDifference(a, b) ==
    LET il == Larger(Len(a.ip), Len(b.ip))
        fl == Larger(Len(a.fp), Len(b.fp))
        x  == Written(a, il, fl)
        y  == Written(b, il, fl)
        d  == IF a.neg # b.neg THEN DigitsSum(x, y)
              ELSE IF DigitsLess(x, y) THEN DigitsDifference(y, x)
              ELSE DigitsDifference(x, y)
    IN  Decimal(FALSE, DropLeadingZeros([i \in 1..(il + 1) |-> d[i]]),
                       DropTrailingZeros([i \in 1..fl |-> d[il + 1 + i]]))

\* a < b for two decimals that are not negative
Less(a, b) ==
    LET il == Larger(Len(a.ip), Len(b.ip))
        fl == Larger(Len(a.fp), Len(b.fp))
    IN  DigitsLess(Written(a, il, fl), Written(b, il, fl))

\* abs(a - b) <= 0.5
WithinHalf(a, b) ==
    /\ ~a.nan /\ ~b.nan
    /\ ~Less(Decimal(FALSE, <<>>, <<5>>), AbsDifference(a, b))

\* abs(a - b) < 1
WithinOne(a, b) ==
    /\ ~a.nan /\ ~b.nan
    /\ Less(AbsDifference(a, b), Decimal(FALSE, <<1>>, <<>>))

\* 0 <= p <= 100
ValidPercentage(p) == ~p.nan /\ ~p.neg /\ ~Less(Decimal(FALSE, <<1, 0, 0>>, <<>>), p)

(***************************************************************************)
(* The regular expressions.  Every pattern is a sequence of greedy parts   *)
(* in which a character given back by one part can be taken by no later    *)
(* part to a different end, so the greedy match is the match re finds.     *)
(* A match is [ok, lo, hi, end]: the number group is s[lo..hi], end is the *)
(* last position of the whole match.                                       *)
(***************************************************************************)
NoMatch == [ok |-> FALSE, lo |-> 0, hi |-> 0, ulo |-> 0, end |-> 0]

\* (\d+\.?\d*) at i: the last position of the number, or i - 1
NumberEnd(s, i) ==
    LET e1  == DigitsEnd(s, i)
        dot == e1 + 1 <= Len(s) /\ s[e1 + 1] = "."
    IN  IF e1 < i THEN i - 1
        ELSE IF dot THEN DigitsEnd(s, e1 + 2) ELSE e1

\* the last position of the run of characters of class that starts at i
RECURSIVE ClassEnd(_, _, _)
ClassEnd(s, i, class) ==
    IF i <= Len(s) /\ s[i] \in class THEN ClassEnd(s, i + 1, class) ELSE i - 1

\* (\d+\.?\d*)\s*<word> at i
NumberThenWord(s, i, word) ==
    LET n == NumberEnd(s, i)
        w == ClassEnd(s, n + 1, Whitespace)
    IN  IF n >= i /\ OccursAt(s, word, w + 1)
        THEN [ok |-> TRUE, lo |-> i, hi |-> n, ulo |-> w + 1, end |-> w + Len(word)]
        ELSE NoMatch

\* <word>[<class>]*(\d+\.?\d*) at i
WordThenNumber(s, i, word, class) ==
    LET c == ClassEnd(s, i + Len(word), class)
        n == NumberEnd(s, c + 1)
    IN  IF OccursAt(s, word, i) /\ n >= c + 1
        THEN [ok |-> TRUE, lo |-> c + 1, hi |-> n, ulo |-> 0, end |-> n]
        ELSE NoMatch

\* re.findall over the table of a pattern's match at each position of the text:
\* leftmost first, the next search starts after the match
RECURSIVE FindAllFrom(_, _)
FindAllFrom(tbl, i) ==
    LET hits == {j \in i..Len(tbl) : tbl[j].ok}
    IN  IF hits = {} THEN <<>>
        ELSE LET j == CHOOSE h \in hits : \A k \in hits : h <= k
             IN  <<tbl[j]>> \o FindAllFrom(tbl, tbl[j].end + 1)

findall(tbl) == FindAllFrom(tbl, 1)

Range(f) == {f[i] : i \in DOMAIN f}

(***************************************************************************)
(* The field verifiers                                                     *)
(***************************************************************************)
GOVERNMENT_WARNING_KEYWORDS ==
    <<<<"G", "O", "V", "E", "R", "N", "M", "E", "N", "T", " ", "W", "A", "R", "N", "I", "N", "G">>,
      <<"S", "U", "R", "G", "E", "O", "N", " ", "G", "E", "N", "E", "R", "A", "L">>,
      <<"A", "C", "C", "O", "R", "D", "I", "N", "G", " ", "T", "O", " ", "T", "H", "E", " ", "S", "U", "R", "G", "E", "O", "N", " ", "G", "E", "N", "E", "R", "A", "L">>,
      <<"W", "O", "M", "E", "N", " ", "S", "H", "O", "U", "L", "D", " ", "N", "O", "T", " ", "D", "R", "I", "N", "K">>,
      <<"A", "L", "C", "O", "H", "O", "L", "I", "C", " ", "B", "E", "V", "E", "R", "A", "G", "E", "S", " ", "D", "U", "R", "I", "N", "G", " ", "P", "R", "E", "G", "N", "A", "N", "C", "Y">>,
      <<"C", "O", "N", "S", "U", "M", "P", "T", "I", "O", "N", " ", "O", "F", " ", "A", "L", "C", "O", "H", "O", "L", "I", "C", " ", "B", "E", "V", "E", "R", "A", "G", "E", "S">>,
      <<"I", "M", "P", "A", "I", "R", "S", " ", "Y", "O", "U", "R", " ", "A", "B", "I", "L", "I", "T", "Y">>>>

verify_brand_name(form_brand, extracted_text) ==
    IF contains_text(extracted_text, form_brand, TRUE, 85)
    THEN Verdict("Brand Name", "match", "Brand name found on the label.")
    ELSE Verdict("Brand Name", "mismatch", "Brand name not found on the label.")

\* sum(1 for word in words if len(word) > 3 and word in normalize_text(text))
key_words_found(words, extracted_text) ==
    Cardinality({i \in 1..Len(words) :
                    Len(words[i]) > 3 /\ In(words[i], normalize_text(extracted_text))})

\* verify_product_type whose word check is made for a form value of any word count
verify_product_type_any_count(form_type, extracted_text) ==
    IF contains_text(extracted_text, form_type, TRUE, 75)
    THEN Verdict("Product Class/Type", "match", "Product type found on the label.")
    ELSE LET words == split(lower(form_type))
         IN  IF key_words_found(words, extracted_text) >= Len(words) \div 2
             THEN Verdict("Product Class/Type", "match",
                          "Product type found on the label (partial match).")
             ELSE Verdict("Product Class/Type", "mismatch",
                          "Product type not found on the label.")

verify_product_type(form_type, extracted_text) ==
    IF contains_text(extracted_text, form_type, TRUE, 75)
    THEN Verdict("Product Class/Type", "match", "Product type found on the label.")
    ELSE LET words == split(lower(form_type))
         IN  IF /\ Len(words) > 2
                /\ key_words_found(words, extracted_text) >= Len(words) \div 2
             THEN Verdict("Product Class/Type", "match",
                          "Product type found on the label (partial match).")
             ELSE Verdict("Product Class/Type", "mismatch",
                          "Product type not found on the label.")

\* the five percentage_patterns, each at position i of the lower-cased text
PercentPattern(s, i) == NumberThenWord(s, i, <<"%">>)

PercentWordPattern(s, i) == NumberThenWord(s, i, <<"p", "e", "r", "c", "e", "n", "t">>)

AbvPattern(s, i) == WordThenNumber(s, i, <<"a", "b", "v">>, {":"} \cup Whitespace)

AlcoholPattern(s, i) == WordThenNumber(s, i, <<"a", "l", "c", "o", "h", "o", "l">>, {":"} \cup Whitespace)

AlcPattern(s, i) == WordThenNumber(s, i, <<"a", "l", "c">>, {".", ":"} \cup Whitespace)

\* the number group of a match, as float() reads it
Group1(s, m) == float(Slice(s, m.lo, m.hi))

\* found_percentages: the set of the matched numbers that lie in [0, 100]
found_percentages(extracted_text) ==
    LET text_lower == lower(extracted_text)
        matches    == Range(findall([i \in 1..Len(text_lower) |-> PercentPattern(text_lower, i)]))
                      \cup Range(findall([i \in 1..Len(text_lower) |-> PercentWordPattern(text_lower, i)]))
                      \cup Range(findall([i \in 1..Len(text_lower) |-> AbvPattern(text_lower, i)]))
                      \cup Range(findall([i \in 1..Len(text_lower) |-> AlcoholPattern(text_lower, i)]))
                      \cup Range(findall([i \in 1..Len(text_lower) |-> AlcPattern(text_lower, i)]))
    IN  {p \in {Group1(text_lower, m) : m \in matches} : ValidPercentage(p)}

\* an exception that leaves the function
Raised(exception) == <<"raise", exception>>

\* verify_alcohol_content without its except clause: the ValueError of float()
\* reaches the caller
verify_alcohol_content_no_except(form_abv, extracted_text) ==
    LET form_abv_float == float(form_abv)
        found          == found_percentages(extracted_text)
    IN  IF IsValueError(form_abv_float) THEN Raised(ValueError)
        ELSE IF \E found_abv \in found : WithinHalf(form_abv_float, found_abv)
        THEN Verdict("Alcohol Content", "match", "Alcohol content found on the label.")
        ELSE IF found # {}
        THEN Verdict("Alcohol Content", "mismatch",
                     "Expected the form value but found another on the label.")
        ELSE Verdict("Alcohol Content", "not_found",
                     "Could not find alcohol content on the label.")

\* verify_alcohol_content with the tolerance compared by < instead of <=
verify_alcohol_content_strict(form_abv, extracted_text) ==
    LET form_abv_float == float(form_abv)
        found          == found_percentages(extracted_text)
    IN  IF IsValueError(form_abv_float)
        THEN Verdict("Alcohol Content", "not_found",
                     "Invalid alcohol content format in form.")
        ELSE IF \E found_abv \in found :
                    /\ ~form_abv_float.nan
                    /\ Less(AbsDifference(form_abv_float, found_abv),
                            Decimal(FALSE, <<>>, <<5>>))
        THEN Verdict("Alcohol Content", "match", "Alcohol content found on the label.")
        ELSE IF found # {}
        THEN Verdict("Alcohol Content", "mismatch",
                     "Expected the form value but found another on the label.")
        ELSE Verdict("Alcohol Content", "not_found",
                     "Could not find alcohol content on the label.")

verify_alcohol_content(form_abv, extracted_text) ==
    LET form_abv_float == float(form_abv)
        found          == found_percentages(extracted_text)
    IN  IF IsValueError(form_abv_float)
        THEN Verdict("Alcohol Content", "not_found",
                     "Invalid alcohol content format in form.")
        ELSE IF \E found_abv \in found : WithinHalf(form_abv_float, found_abv)
        THEN Verdict("Alcohol Content", "match", "Alcohol content found on the label.")
        ELSE IF found # {}
        THEN Verdict("Alcohol Content", "mismatch",
                     "Expected the form value but found another on the label.")
        ELSE Verdict("Alcohol Content", "not_found",
                     "Could not find alcohol content on the label.")

\* the alternatives of the volume_patterns' unit groups, in the order re tries them
MlUnits ==
    <<<<"m", "l">>,
      <<"m", "i", "l", "l", "i", "l", "i", "t", "e", "r">>,
      <<"m", "i", "l", "l", "i", "l", "i", "t", "r", "e">>>>

LUnits == <<<<"l">>, <<"l", "i", "t", "e", "r">>, <<"l", "i", "t", "r", "e">>>>

OzUnits == <<<<"o", "z">>, <<"o", "u", "n", "c", "e">>>>

ClUnits == <<<<"c", "l">>, <<"c", "e", "n", "t", "i", "l", "i", "t", "e", "r">>>>

\* (\d+\.?\d*)\s*(u1|u2|...) at i: the first alternative that occurs
NumberThenUnit(s, i, units) ==
    LET hits == {k \in 1..Len(units) : NumberThenWord(s, i, units[k]).ok}
    IN  IF hits = {} THEN NoMatch ELSE NumberThenWord(s, i, units[SetMin(hits)])

\* (\d+\.?\d*)\s*<first>\s*<second> at i
NumberThenTwoWords(s, i, first, second) ==
    LET m == NumberThenWord(s, i, first)
        w == ClassEnd(s, m.end + 1, Whitespace)
    IN  IF m.ok /\ OccursAt(s, second, w + 1)
        THEN [m EXCEPT !.end = w + Len(second)]
        ELSE NoMatch

MlPattern(s, i) == NumberThenUnit(s, i, MlUnits)

LPattern(s, i) == NumberThenUnit(s, i, LUnits)

OzPattern(s, i) == NumberThenUnit(s, i, OzUnits)

\* (\d+\.?\d*)\s*(fl\s*oz|fluid\s*ounce)
FlOzPattern(s, i) ==
    LET a == NumberThenTwoWords(s, i, <<"f", "l">>, <<"o", "z">>)
    IN  IF a.ok THEN a ELSE NumberThenTwoWords(s, i, <<"f", "l", "u", "i", "d">>, <<"o", "u", "n", "c", "e">>)

ClPattern(s, i) == NumberThenUnit(s, i, ClUnits)

\* match[1].replace(' ', '')
RemoveBlanks(s) == SelectSeq(s, LAMBDA c : c # " ")

\* every match of the five volume_patterns in the lower-cased text
volume_matches(text_lower) ==
    Range(findall([i \in 1..Len(text_lower) |-> MlPattern(text_lower, i)]))
    \cup Range(findall([i \in 1..Len(text_lower) |-> LPattern(text_lower, i)]))
    \cup Range(findall([i \in 1..Len(text_lower) |-> OzPattern(text_lower, i)]))
    \cup Range(findall([i \in 1..Len(text_lower) |-> FlOzPattern(text_lower, i)]))
    \cup Range(findall([i \in 1..Len(text_lower) |-> ClPattern(text_lower, i)]))

\* the (found_num, found_unit) of every match
found_volumes(extracted_text) ==
    LET text_lower == lower(extracted_text)
    IN  {[num  |-> Group1(text_lower, m),
          unit |-> RemoveBlanks(Slice(text_lower, m.ulo, m.end))] :
            m \in volume_matches(text_lower)}

\* re.search(r'(\d+\.?\d*)\s*([a-z]+)', form_normalized) at i
FormPattern(s, i) ==
    LET n == NumberEnd(s, i)
        w == ClassEnd(s, n + 1, Whitespace)
        u == ClassEnd(s, w + 1, Range(LowerLetters))
    IN  IF n >= i /\ u >= w + 1
        THEN [ok |-> TRUE, lo |-> i, hi |-> n, ulo |-> w + 1, end |-> u]
        ELSE NoMatch

\* the first match of the search, NoMatch when there is none
form_match(form_normalized) ==
    LET at == {i \in 1..Len(form_normalized) : FormPattern(form_normalized, i).ok}
    IN  IF at = {} THEN NoMatch ELSE FormPattern(form_normalized, SetMin(at))

units_match(form_unit, found_unit) ==
    \/ form_unit = found_unit
    \/ In(form_unit, found_unit)
    \/ In(found_unit, form_unit)

\* the direct check: form_normalized in normalize_text(extracted_text)
direct_match(form_contents, extracted_text) ==
    In(normalize_text(form_contents), normalize_text(extracted_text))

\* the number/unit search that follows a failed direct check
fallback_match(form_contents, extracted_text) ==
    LET form_normalized == normalize_text(form_contents)
        fm        == form_match(form_normalized)
        form_num  == float(Slice(form_normalized, fm.lo, fm.hi))
        form_unit == Slice(form_normalized, fm.ulo, fm.end)
    IN  /\ fm.ok
        /\ \E v \in found_volumes(extracted_text) :
              units_match(form_unit, v.unit) /\ WithinOne(form_num, v.num)

\* verify_net_contents that reports a label volume that does not fit as a mismatch
verify_net_contents_mismatch(form_contents, extracted_text) ==
    IF ~Truthy(form_contents) THEN None
    ELSE IF direct_match(form_contents, extracted_text)
    THEN Verdict("Net Contents", "match", "Net contents found on the label.")
    ELSE IF fallback_match(form_contents, extracted_text)
    THEN Verdict("Net Contents", "match", "Net contents found on the label.")
    ELSE IF found_volumes(extracted_text) # {}
    THEN Verdict("Net Contents", "mismatch", "Another volume found on the label.")
    ELSE Verdict("Net Contents", "not_found",
                 "Net contents not clearly found on the label.")

\* verify_net_contents without the number/unit search: the direct check alone
verify_net_contents_direct_only(form_contents, extracted_text) ==
    IF ~Truthy(form_contents) THEN None
    ELSE IF direct_match(form_contents, extracted_text)
    THEN Verdict("Net Contents", "match", "Net contents found on the label.")
    ELSE Verdict("Net Contents", "not_found",
                 "Net contents not clearly found on the label.")

verify_net_contents(form_contents, extracted_text) ==
    IF ~Truthy(form_contents) THEN None
    ELSE IF direct_match(form_contents, extracted_text)
    THEN Verdict("Net Contents", "match", "Net contents found on the label.")
    ELSE IF fallback_match(form_contents, extracted_text)
    THEN Verdict("Net Contents", "match", "Net contents found on the label.")
    ELSE Verdict("Net Contents", "not_found",
                 "Net contents not clearly found on the label.")

\* sum(1 for keyword in GOVERNMENT_WARNING_KEYWORDS if keyword in text_upper)
keyword_count(text_upper) ==
    Cardinality({k \in 1..Len(GOVERNMENT_WARNING_KEYWORDS) :
                    In(GOVERNMENT_WARNING_KEYWORDS[k], text_upper)})

\* verify_government_warning that wants two phrases besides the header
verify_government_warning_three(extracted_text) ==
    LET text_upper == upper(extracted_text)
    IN  IF In(GOVERNMENT_WARNING_KEYWORDS[1], text_upper)
        THEN IF keyword_count(text_upper) >= 3
             THEN Verdict("Government Warning", "match",
                          "Government warning statement found on the label.")
             ELSE Verdict("Government Warning", "warning",
                          "'GOVERNMENT WARNING' found but complete warning text may be incomplete.")
        ELSE Verdict("Government Warning", "not_found",
                     "Government warning statement not found on the label. This is required by law.")

verify_government_warning(extracted_text) ==
    LET text_upper == upper(extracted_text)
    IN  IF In(GOVERNMENT_WARNING_KEYWORDS[1], text_upper)
        THEN IF keyword_count(text_upper) >= 2
             THEN Verdict("Government Warning", "match",
                          "Government warning statement found on the label.")
             ELSE Verdict("Government Warning", "warning",
                          "'GOVERNMENT WARNING' found but complete warning text may be incomplete.")
        ELSE Verdict("Government Warning", "not_found",
                     "Government warning statement not found on the label. This is required by law.")

(***************************************************************************)
(* verify_label_data                                                       *)
(***************************************************************************)
\* form_data.get(key): None for a key the dict does not hold
Get(form_data, key) == IF key \in DOMAIN form_data THEN form_data[key] ELSE None

\* verify_label_data that appends the government warning before the net contents
verify_label_data_warning_early(form_data, extracted_text) ==
    LET brand == IF Truthy(Get(form_data, "brand_name"))
                 THEN <<verify_brand_name(form_data["brand_name"], extracted_text)>>
                 ELSE <<>>
        type  == IF Truthy(Get(form_data, "product_type"))
                 THEN <<verify_product_type(form_data["product_type"], extracted_text)>>
                 ELSE <<>>
        abv   == IF Truthy(Get(form_data, "alcohol_content"))
                 THEN <<verify_alcohol_content(form_data["alcohol_content"], extracted_text)>>
                 ELSE <<>>
        net_contents_result == verify_net_contents(Get(form_data, "net_contents"),
                                                   extracted_text)
        net   == IF net_contents_result # None THEN <<net_contents_result>> ELSE <<>>
    IN  brand \o type \o abv \o <<verify_government_warning(extracted_text)>> \o net

\* verify_label_data that tests `key in form_data` instead of the value: an empty
\* value is verified too
verify_label_data_key_present(form_data, extracted_text) ==
    LET brand == IF "brand_name" \in DOMAIN form_data
                 THEN <<verify_brand_name(form_data["brand_name"], extracted_text)>>
                 ELSE <<>>
        type  == IF "product_type" \in DOMAIN form_data
                 THEN <<verify_product_type(form_data["product_type"], extracted_text)>>
                 ELSE <<>>
        abv   == IF "alcohol_content" \in DOMAIN form_data
                 THEN <<verify_alcohol_content(form_data["alcohol_content"], extracted_text)>>
                 ELSE <<>>
        net_contents_result == verify_net_contents(Get(form_data, "net_contents"),
                                                   extracted_text)
        net   == IF net_contents_result # None THEN <<net_contents_result>> ELSE <<>>
    IN  brand \o type \o abv \o net \o <<verify_government_warning(extracted_text)>>

verify_label_data(form_data, extracted_text) ==
    LET brand == IF Truthy(Get(form_data, "brand_name"))
                 THEN <<verify_brand_name(form_data["brand_name"], extracted_text)>>
                 ELSE <<>>
        type  == IF Truthy(Get(form_data, "product_type"))
                 THEN <<verify_product_type(form_data["product_type"], extracted_text)>>
                 ELSE <<>>
        abv   == IF Truthy(Get(form_data, "alcohol_content"))
                 THEN <<verify_alcohol_content(form_data["alcohol_content"], extracted_text)>>
                 ELSE <<>>
        net_contents_result == verify_net_contents(Get(form_data, "net_contents"),
                                                   extracted_text)
        net   == IF net_contents_result # None THEN <<net_contents_result>> ELSE <<>>
    IN  brand \o type \o abv \o net \o <<verify_government_warning(extracted_text)>>

(***************************************************************************)
(* Input sets                                                              *)
(***************************************************************************)
\* every string over chars of at most n characters
StringsUpTo(chars, n) == UNION {[1..k -> chars] : k \in 0..n}

RECURSIVE Concat(_)
Concat(parts) == IF Len(parts) = 0 THEN <<>> ELSE parts[1] \o Concat(Tail(parts))

\* every text made of at most n fragments of pool, one after the other
TextsOf(pool, n) == {Concat(parts) : parts \in StringsUpTo(pool, n)}

(***************************************************************************)
(* normalize_text called on a string, then on its own result               *)
(***************************************************************************)
MaxNormalizeLen == 5

NormalizeChars == {"a", "B", " ", "\n", "!"}

InitNormalize ==
    /\ args \in {[text |-> t] : t \in StringsUpTo(NormalizeChars, MaxNormalizeLen)}
    /\ called = "none"
    /\ pc = "ready"
    /\ ret = None
    /\ uploads = <<>>
    /\ locals = <<>>

CallNormalizeText ==
    /\ pc = "ready"
    /\ called' = "normalize_text"
    /\ ret' = normalize_text(args.text)
    /\ pc' = "returned"
    /\ UNCHANGED <<args, uploads, locals>>

\* the caller passes the result back in
CallNormalizeTextAgain ==
    /\ pc = "returned"
    /\ called = "normalize_text"
    /\ args' = [text |-> ret]
    /\ ret' = normalize_text(ret)
    /\ pc' = "returned_again"
    /\ UNCHANGED <<called, uploads, locals>>

NextNormalize == CallNormalizeText \/ CallNormalizeTextAgain

SpecNormalize == InitNormalize /\ [][NextNormalize]_vars

\* C3: normalize_text is idempotent: normalizing a result of normalize_text
\* gives that result back
C3_NormalizeIdempotent == pc = "returned_again" => ret = args.text

(***************************************************************************)
(* contains_text called on a haystack, a needle and a threshold            *)
(***************************************************************************)
MaxHaystackLen == 3

MaxNeedleLen == 2

ContainsChars == {"a", "b", " ", "!"}

\* the thresholds of verify_product_type, of the default and of verify_brand_name
Thresholds == {75, 80, 85}

InitContains ==
    /\ args \in [haystack  : StringsUpTo(ContainsChars, MaxHaystackLen),
                 needle    : StringsUpTo(ContainsChars, MaxNeedleLen),
                 fuzzy     : BOOLEAN,
                 threshold : Thresholds]
    /\ called = "none"
    /\ pc = "ready"
    /\ ret = None
    /\ uploads = <<>>
    /\ locals = <<>>

CallContainsText ==
    /\ pc = "ready"
    /\ called' = "contains_text"
    /\ ret' = contains_text(args.haystack, args.needle, args.fuzzy, args.threshold)
    /\ pc' = "returned"
    /\ UNCHANGED <<args, uploads, locals>>

NextContains == CallContainsText

SpecContains == InitContains /\ [][NextContains]_vars

\* C4: contains_text returns True whenever the normalized needle is a literal
\* substring of the normalized haystack, whatever the threshold; an empty needle
\* is contained in every haystack, the empty one included
C4_SubstringIsContained ==
    pc = "returned" =>
        /\ In(normalize_text(args.needle), normalize_text(args.haystack)) => ret = TRUE
        /\ args.needle = <<>> => ret = TRUE

\* a literal substring that no window of the fuzzy search would accept
C4_Witness ==
    /\ pc = "returned"
    /\ ret = TRUE
    /\ args.haystack = <<"a", "b", "!">>
    /\ args.needle = <<"!", "b">>
    /\ args.threshold = 85

(***************************************************************************)
(* verify_alcohol_content called on a form value and a text                *)
(***************************************************************************)
MaxAlcoholParts == 3

AlcoholParts ==
    {<<"4", "5">>,
     <<"4", "0">>,
     <<"%">>,
     <<" ">>,
     <<".", "5">>,
     <<"1", "0", "1">>,
     <<" ", "p", "e", "r", "c", "e", "n", "t">>,
     <<"A", "B", "V", ":", " ">>,
     <<"A", "l", "c", "o", "h", "o", "l", " ">>,
     <<" ", "A", "l", "c", ".", "/", "V", "o", "l", ".">>,
     <<"A", "l", "c", ".", " ">>,
     <<"P", "r", "o", "o", "f">>}

AlcoholForms ==
    {<<"4", "5">>,
     <<"4", "5", ".", "5">>,
     <<"4", "0">>,
     <<" ", "4", ".", "5", " ">>,
     <<"a", "b", "c">>,
     <<"4", " ", "5">>,
     <<".">>,
     <<"N", "a", "N">>,
     <<>>}

InitAlcohol ==
    /\ args \in [form_abv       : AlcoholForms,
                 extracted_text : TextsOf(AlcoholParts, MaxAlcoholParts)]
    /\ called = "none"
    /\ pc = "ready"
    /\ ret = None
    /\ uploads = <<>>
    /\ locals = <<>>

CallVerifyAlcoholContent ==
    /\ pc = "ready"
    /\ called' = "verify_alcohol_content"
    /\ ret' = verify_alcohol_content(args.form_abv, args.extracted_text)
    /\ pc' = "returned"
    /\ UNCHANGED <<args, uploads, locals>>

NextAlcohol == CallVerifyAlcoholContent

SpecAlcohol == InitAlcohol /\ [][NextAlcohol]_vars

(***************************************************************************)
(* verify_net_contents called on a form value (or None) and a text         *)
(***************************************************************************)
MaxNetParts == 3

NetParts ==
    {<<"7", "5", "0">>,
     <<"7", "5", "1", ".", "5">>,
     <<"1">>,
     <<" ">>,
     <<"m", "l">>,
     <<"m", "L">>,
     <<"m", "i", "l", "l", "i", "l", "i", "t", "e", "r">>,
     <<"l">>,
     <<"c", "l">>,
     <<"f", "l", " ", "o", "z">>,
     <<"N", "E", "T", ":", " ", "2", "5", ".", "4", " ", "F", "L", " ", "O", "Z">>}

NetForms ==
    {None,
     <<>>,
     <<"7", "5", "0", " ", "m", "L">>,
     <<"7", "5", "0", " ", "m", "l">>,
     <<"7", "5", "0", " ", "m", "i", "l", "l", "i", "l", "i", "t", "e", "r">>,
     <<"1", " ", "l">>,
     <<"7", "5", "0">>}

InitNet ==
    /\ args \in [form_contents  : NetForms,
                 extracted_text : TextsOf(NetParts, MaxNetParts)]
    /\ called = "none"
    /\ pc = "ready"
    /\ ret = None
    /\ uploads = <<>>
    /\ locals = <<>>

CallVerifyNetContents ==
    /\ pc = "ready"
    /\ called' = "verify_net_contents"
    /\ ret' = verify_net_contents(args.form_contents, args.extracted_text)
    /\ pc' = "returned"
    /\ UNCHANGED <<args, uploads, locals>>

NextNet == CallVerifyNetContents

SpecNet == InitNet /\ [][NextNet]_vars

(***************************************************************************)
(* verify_government_warning called on a text                              *)
(***************************************************************************)
MaxWarningParts == 3

WarningParts ==
    {<<"G", "O", "V", "E", "R", "N", "M", "E", "N", "T", " ", "W", "A", "R", "N", "I", "N", "G">>,
     <<"G", "o", "v", "e", "r", "n", "m", "e", "n", "t">>,
     <<" ">>,
     <<"W", "a", "r", "n", "i", "n", "g", ":", " ">>,
     <<"S", "u", "r", "g", "e", "o", "n", " ", "G", "e", "n", "e", "r", "a", "l">>,
     <<"A", "c", "c", "o", "r", "d", "i", "n", "g", " ", "t", "o", " ", "t", "h", "e", " ">>,
     <<"w", "o", "m", "e", "n", " ", "s", "h", "o", "u", "l", "d", " ", "n", "o", "t", " ", "d", "r", "i", "n", "k">>,
     <<" ", "a", "l", "c", "o", "h", "o", "l", "i", "c", " ", "b", "e", "v", "e", "r", "a", "g", "e", "s", " ", "d", "u", "r", "i", "n", "g", " ", "p", "r", "e", "g", "n", "a", "n", "c", "y">>,
     <<"C", "o", "n", "s", "u", "m", "p", "t", "i", "o", "n", " ", "o", "f">>,
     <<"i", "m", "p", "a", "i", "r", "s", " ", "y", "o", "u", "r", " ", "a", "b", "i", "l", "i", "t", "y">>,
     <<"\n">>}

InitWarning ==
    /\ args \in [extracted_text : TextsOf(WarningParts, MaxWarningParts)]
    /\ called = "none"
    /\ pc = "ready"
    /\ ret = None
    /\ uploads = <<>>
    /\ locals = <<>>

CallVerifyGovernmentWarning ==
    /\ pc = "ready"
    /\ called' = "verify_government_warning"
    /\ ret' = verify_government_warning(args.extracted_text)
    /\ pc' = "returned"
    /\ UNCHANGED <<args, uploads, locals>>

NextWarning == CallVerifyGovernmentWarning

SpecWarning == InitWarning /\ [][NextWarning]_vars

(***************************************************************************)
(* verify_label_data, and the two text verifiers, called on a form and a   *)
(* label text                                                              *)
(***************************************************************************)
MaxLabelLines == 2

LabelLines ==
    {<<"O", "L", "D", " ", "T", "O", "M", "\n">>,
     <<"O", "l", "d", " ", "T", "i", "m", "'", "s", "\n">>,
     <<"B", "o", "u", "r", "b", "o", "n", " ", "W", "h", "i", "s", "k", "e", "y", "\n">>,
     <<"4", "5", "%", " ", "A", "l", "c", ".", "/", "V", "o", "l", ".", " ", "7", "5", "0", " ", "m", "L", "\n">>,
     <<"G", "O", "V", "E", "R", "N", "M", "E", "N", "T", " ", "W", "A", "R", "N", "I", "N", "G", ":", " ", "S", "u", "r", "g", "e", "o", "n", " ", "G", "e", "n", "e", "r", "a", "l", "\n">>}

FormKeys == {"brand_name", "product_type", "alcohol_content", "net_contents"}

\* the values a form may hold under each key; a form holds any subset of the keys
FormValues ==
    [brand_name      |-> {<<>>, <<"O", "l", "d", " ", "T", "o", "m">>},
     product_type    |-> {<<>>, <<"B", "o", "u", "r", "b", "o", "n", " ", "W", "h", "i", "s", "k", "e", "y">>},
     alcohol_content |-> {<<>>, <<"4", "5">>, <<"a", "b", "c">>},
     net_contents    |-> {<<>>, <<"7", "5", "0", " ", "m", "L">>}]

Forms ==
    UNION {{f \in [keys -> UNION {FormValues[k] : k \in keys}] :
                \A k \in keys : f[k] \in FormValues[k]} : keys \in SUBSET FormKeys}

Init ==
    /\ args \in [form_data      : Forms,
                 extracted_text : TextsOf(LabelLines, MaxLabelLines)]
    /\ called = "none"
    /\ pc = "ready"
    /\ ret = None
    /\ uploads = <<>>
    /\ locals = <<>>

CallVerifyBrandName ==
    /\ pc = "ready"
    /\ "brand_name" \in DOMAIN args.form_data
    /\ called' = "verify_brand_name"
    /\ ret' = verify_brand_name(args.form_data["brand_name"], args.extracted_text)
    /\ pc' = "returned"
    /\ UNCHANGED <<args, uploads, locals>>

CallVerifyProductType ==
    /\ pc = "ready"
    /\ "product_type" \in DOMAIN args.form_data
    /\ called' = "verify_product_type"
    /\ ret' = verify_product_type(args.form_data["product_type"], args.extracted_text)
    /\ pc' = "returned"
    /\ UNCHANGED <<args, uploads, locals>>

CallVerifyLabelData ==
    /\ pc = "ready"
    /\ called' = "verify_label_data"
    /\ ret' = verify_label_data(args.form_data, args.extracted_text)
    /\ pc' = "returned"
    /\ UNCHANGED <<args, uploads, locals>>

Next == CallVerifyBrandName \/ CallVerifyProductType \/ CallVerifyLabelData

Spec == Init /\ [][Next]_vars

(***************************************************************************)
(* Properties of verify_label_data (under Spec)                            *)
(***************************************************************************)
Returned(function) == pc = "returned" /\ called = function

\* the 'field' of each verdict of a list, in order
FieldsOf(verdicts) == [i \in 1..Len(verdicts) |-> Field(verdicts[i])]

\* how many verdicts of a list are about field
CountOf(verdicts, field) == Cardinality({i \in 1..Len(verdicts) : Field(verdicts[i]) = field})

Given(form_data, key) == Truthy(Get(form_data, key))

\* C1: with brand_name, product_type and alcohol_content non-empty,
\* verify_label_data returns the 4 verdicts Brand Name, Product Class/Type,
\* Alcohol Content, Government Warning when net_contents is empty or absent and
\* the 5 verdicts Brand Name, Product Class/Type, Alcohol Content, Net Contents,
\* Government Warning when it is non-empty; the Government Warning verdict is
\* the last element of every returned list
C1_VerdictOrder ==
    Returned("verify_label_data") =>
        /\ Field(ret[Len(ret)]) = "Government Warning"
        /\ (/\ Given(args.form_data, "brand_name")
            /\ Given(args.form_data, "product_type")
            /\ Given(args.form_data, "alcohol_content"))
           => FieldsOf(ret) =
                IF Given(args.form_data, "net_contents")
                THEN <<"Brand Name", "Product Class/Type", "Alcohol Content",
                       "Net Contents", "Government Warning">>
                ELSE <<"Brand Name", "Product Class/Type", "Alcohol Content",
                       "Government Warning">>

\* all four fields given, five verdicts returned
C1_Witness ==
    /\ Returned("verify_label_data")
    /\ \A key \in FormKeys : Given(args.form_data, key)
    /\ Len(ret) = 5

RequiredFields ==
    [brand_name      |-> "Brand Name",
     product_type    |-> "Product Class/Type",
     alcohol_content |-> "Alcohol Content"]

\* C2 as stated: for every form, one in which brand_name, product_type or
\* alcohol_content is empty or missing included, the returned list holds exactly
\* one verdict for each of the three fields
C2_Unconditional ==
    Returned("verify_label_data") =>
        \A key \in DOMAIN RequiredFields : CountOf(ret, RequiredFields[key]) = 1

\* C2 as amended: the returned list holds exactly one verdict for each of the
\* three fields whose form value is present and non-empty, and none for a field
\* whose form value is empty or missing
C2_VerdictIffGiven ==
    Returned("verify_label_data") =>
        \A key \in DOMAIN RequiredFields :
            CountOf(ret, RequiredFields[key]) = IF Given(args.form_data, key) THEN 1 ELSE 0

\* brand_name is the empty string, the other two are given: no Brand Name verdict
C2_Witness ==
    /\ Returned("verify_label_data")
    /\ Get(args.form_data, "brand_name") = <<>>
    /\ Given(args.form_data, "product_type")
    /\ Given(args.form_data, "alcohol_content")
    /\ CountOf(ret, "Brand Name") = 0
    /\ CountOf(ret, "Product Class/Type") = 1

(***************************************************************************)
(* Properties of verify_alcohol_content (under SpecAlcohol)                *)
(***************************************************************************)
IsVerdict(x) == Len(x) = 3

\* C5: for a form value that does not parse as a number, verify_alcohol_content
\* raises nothing and returns a verdict of field Alcohol Content with status
\* not_found, whatever the text
C5_UnparsableIsNotFound ==
    (Returned("verify_alcohol_content") /\ IsValueError(float(args.form_abv))) =>
        /\ IsVerdict(ret)
        /\ Field(ret) = "Alcohol Content"
        /\ Status(ret) = "not_found"

\* the form value "abc" against a text that holds a percentage
C5_Witness ==
    /\ Returned("verify_alcohol_content")
    /\ args.form_abv = <<"a", "b", "c">>
    /\ args.extracted_text = <<"4", "5", "%">>
    /\ Status(ret) = "not_found"

HasNoDigit(text) == \A i \in 1..Len(text) : ~IsDigit(text[i])

\* C6: for a parsable form value v and the set F of the numbers in [0, 100]
\* that the five patterns extract from the text: match iff some f of F lies
\* within 0.5 of v, mismatch iff F is non-empty and no f lies within 0.5 of v,
\* not_found iff F is empty; so "45" is a match against "45% Alc./Vol.", a
\* mismatch against "40% Alc./Vol." and not_found against a text without digit
C6_StatusByTolerance ==
    (Returned("verify_alcohol_content") /\ ~IsValueError(float(args.form_abv))) =>
        LET v == float(args.form_abv)
            F == found_percentages(args.extracted_text)
            near == \E f \in F : WithinHalf(v, f)
        IN  /\ Status(ret) = "match" <=> near
            /\ Status(ret) = "mismatch" <=> (F # {} /\ ~near)
            /\ Status(ret) = "not_found" <=> F = {}
            /\ args.form_abv = <<"4", "5">> =>
                /\ args.extracted_text = <<"4", "5", "%", " ", "A", "l", "c", ".", "/", "V", "o", "l", ".">> => Status(ret) = "match"
                /\ args.extracted_text = <<"4", "0", "%", " ", "A", "l", "c", ".", "/", "V", "o", "l", ".">> => Status(ret) = "mismatch"
                /\ HasNoDigit(args.extracted_text) => Status(ret) = "not_found"

\* the form value 45.5 against a label of 45%: exactly 0.5 apart, a match
C6_Witness ==
    /\ Returned("verify_alcohol_content")
    /\ args.form_abv = <<"4", "5", ".", "5">>
    /\ args.extracted_text = <<"4", "5", "%", " ", "A", "l", "c", ".", "/", "V", "o", "l", ".">>
    /\ Status(ret) = "match"

(***************************************************************************)
(* Properties of verify_net_contents (under SpecNet)                       *)
(***************************************************************************)
\* C7: verify_net_contents never produces mismatch: for a non-empty form value
\* the verdict's status is match or not_found ("750 mL" against
\* "NET: 25.4 FL OZ" is not_found), for an empty or absent one there is no verdict
C7_NeverMismatch ==
    Returned("verify_net_contents") =>
        /\ ~Truthy(args.form_contents) => ret = None
        /\ Truthy(args.form_contents) =>
            /\ IsVerdict(ret)
            /\ Field(ret) = "Net Contents"
            /\ Status(ret) \in {"match", "not_found"}
        /\ (/\ args.form_contents = <<"7", "5", "0", " ", "m", "L">>
            /\ args.extracted_text = <<"N", "E", "T", ":", " ", "2", "5", ".", "4", " ", "F", "L", " ", "O", "Z">>) => Status(ret) = "not_found"

\* a label volume in another unit: not_found, not mismatch
C7_Witness ==
    /\ Returned("verify_net_contents")
    /\ args.form_contents = <<"7", "5", "0", " ", "m", "L">>
    /\ args.extracted_text = <<"N", "E", "T", ":", " ", "2", "5", ".", "4", " ", "F", "L", " ", "O", "Z">>
    /\ found_volumes(args.extracted_text) # {}
    /\ Status(ret) = "not_found"

\* the text holds a volume, and every volume it holds is written as `written`
\* (letter case apart)
OnlyVolumeWritten(extracted_text, written) ==
    LET text_lower == lower(extracted_text)
        matches    == volume_matches(text_lower)
    IN  /\ matches # {}
        /\ \A m \in matches : Slice(text_lower, m.lo, m.end) = written

\* C8: the unit rule matches the abbreviation against the spelled-out unit:
\* form "750 ml" against a text whose only volume is "750 milliliter", and form
\* "750 milliliter" against a text whose only volume is "750 ml", are both match
C8_AbbreviationMatches ==
    Returned("verify_net_contents") =>
        /\ (/\ args.form_contents = <<"7", "5", "0", " ", "m", "l">>
            /\ OnlyVolumeWritten(args.extracted_text, <<"7", "5", "0", " ", "m", "i", "l", "l", "i", "l", "i", "t", "e", "r">>))
           => Status(ret) = "match"
        /\ (/\ args.form_contents = <<"7", "5", "0", " ", "m", "i", "l", "l", "i", "l", "i", "t", "e", "r">>
            /\ OnlyVolumeWritten(args.extracted_text, <<"7", "5", "0", " ", "m", "l">>))
           => Status(ret) = "match"

\* C9 as stated: for form "750 mL" and a text whose only volume is written
\* "750ml", match is returned at the direct check: the normalized form value is
\* a substring of the normalized text
C9_DirectCheckMatches ==
    (/\ Returned("verify_net_contents")
     /\ args.form_contents = <<"7", "5", "0", " ", "m", "L">>
     /\ OnlyVolumeWritten(args.extracted_text, <<"7", "5", "0", "m", "l">>))
    => /\ Status(ret) = "match"
       /\ direct_match(args.form_contents, args.extracted_text)

\* C9 as amended: for form "750 mL" and a text whose only volume is written
\* "750ml" the status is match; for the text "750ml" itself the normalized form
\* value "750 ml" is no substring of the normalized text, and the match comes
\* from the number/unit search
C9_MatchByFallback ==
    (/\ Returned("verify_net_contents")
     /\ args.form_contents = <<"7", "5", "0", " ", "m", "L">>
     /\ OnlyVolumeWritten(args.extracted_text, <<"7", "5", "0", "m", "l">>))
    => /\ Status(ret) = "match"
       /\ lower(args.extracted_text) = <<"7", "5", "0", "m", "l">> =>
            /\ normalize_text(args.form_contents) = <<"7", "5", "0", " ", "m", "l">>
            /\ ~In(<<"7", "5", "0", " ", "m", "l">>, normalize_text(args.extracted_text))
            /\ fallback_match(args.form_contents, args.extracted_text)

\* form "750 mL" against the text "750mL": a match
C9_Witness ==
    /\ Returned("verify_net_contents")
    /\ args.form_contents = <<"7", "5", "0", " ", "m", "L">>
    /\ args.extracted_text = <<"7", "5", "0", "m", "L">>
    /\ Status(ret) = "match"

(***************************************************************************)
(* Properties of verify_government_warning (under SpecWarning)             *)
(***************************************************************************)
\* C10: the status is decided by the upper-cased text: not_found iff
\* "GOVERNMENT WARNING" is absent; warning iff it is present and fewer than 2 of
\* the seven phrases occur, which is when none of the other six occurs; match iff
\* it is present and at least 2 of the seven occur
C10_StatusByPhrases ==
    Returned("verify_government_warning") =>
        LET text_upper == upper(args.extracted_text)
            header == In(<<"G", "O", "V", "E", "R", "N", "M", "E", "N", "T", " ", "W", "A", "R", "N", "I", "N", "G">>, text_upper)
            occur  == {k \in 1..7 : In(GOVERNMENT_WARNING_KEYWORDS[k], text_upper)}
        IN  /\ Status(ret) = "not_found" <=> ~header
            /\ Status(ret) = "warning" <=> (header /\ Cardinality(occur) < 2)
            /\ Status(ret) = "warning" <=> (header /\ occur \cap (2..7) = {})
            /\ Status(ret) = "match" <=> (header /\ Cardinality(occur) >= 2)

\* the header with one more word that is none of the phrases: a warning
C10_Witness ==
    /\ Returned("verify_government_warning")
    /\ args.extracted_text = <<"G", "o", "v", "e", "r", "n", "m", "e", "n", "t", " ", "W", "a", "r", "n", "i", "n", "g", ":", " ">>
    /\ Status(ret) = "warning"

(***************************************************************************)
(* verify_product_type called on a form value of some words and a text     *)
(***************************************************************************)
MaxTypeWords == 3

MaxTypeParts == 2

TypeWords ==
    {<<"R", "y", "e">>,
     <<"M", "a", "l", "t">>,
     <<"W", "h", "i", "s", "k", "y">>}

TypeParts ==
    {<<"M", "A", "L", "T", " ">>,
     <<"W", "h", "i", "s", "k", "y", "\n">>,
     <<"r", "y", "e", " ">>}

\* the form values: up to MaxTypeWords of the words, one blank between two
ProductTypes == {join(words) : words \in StringsUpTo(TypeWords, MaxTypeWords)}

InitProductType ==
    /\ args \in [form_data      : {[product_type |-> t] : t \in ProductTypes},
                 extracted_text : TextsOf(TypeParts, MaxTypeParts)]
    /\ called = "none"
    /\ pc = "ready"
    /\ ret = None
    /\ uploads = <<>>
    /\ locals = <<>>

NextProductType == CallVerifyProductType

SpecProductType == InitProductType /\ [][NextProductType]_vars

(***************************************************************************)
(* Properties of verify_product_type (under SpecProductType)               *)
(***************************************************************************)
\* the call whose contains_text(text, type, threshold=0.75) has failed
FallbackReached ==
    /\ Returned("verify_product_type")
    /\ ~contains_text(args.extracted_text, args.form_data["product_type"], TRUE, 75)

\* the words of the form value, and how many of them are longer than 3
\* characters and occur in the normalized text
FormWords == split(lower(args.form_data["product_type"]))

KeyWordsOnLabel == key_words_found(FormWords, args.extracted_text)

\* C11 as stated: when contains_text(text, type, threshold=0.75) fails,
\* verify_product_type returns match if and only if the number of words of the
\* form value that are longer than 3 characters and occur in the normalized
\* text is at least half of the form value's word count, whatever the word
\* count (one, two, odd); otherwise it returns mismatch
C11_HalfOfAnyWordCount ==
    FallbackReached =>
        /\ Status(ret) \in {"match", "mismatch"}
        /\ Status(ret) = "match" <=> 2 * KeyWordsOnLabel >= Len(FormWords)

\* C11 as amended: when contains_text fails, verify_product_type returns match
\* if and only if the form value has more than two words and the number of its
\* words that are longer than 3 characters and occur in the normalized text is
\* at least half of the word count rounded down; otherwise it returns mismatch
C11_HalfRoundedDownOverTwoWords ==
    FallbackReached =>
        /\ Status(ret) \in {"match", "mismatch"}
        /\ Status(ret) = "match" <=>
                (Len(FormWords) > 2 /\ 2 * KeyWordsOnLabel >= Len(FormWords) - 1)

\* three words of which one is on the label: a match by the word check
C11_Witness ==
    /\ FallbackReached
    /\ Len(FormWords) = 3
    /\ KeyWordsOnLabel = 1
    /\ Status(ret) = "match"

(***************************************************************************)
(* verify_label_data on a text in which nothing was recognized (under Spec)*)
(***************************************************************************)
\* C12: when the recognized text is the empty string, verify_label_data does
\* not return a list of verdicts (no not_found row per field) but a failure
\* signal: what it returns holds no verdict
C12_EmptyTextIsFailure ==
    (Returned("verify_label_data") /\ args.extracted_text = <<>>) =>
        \A i \in 1..Len(ret) : ~IsVerdict(ret[i])

(***************************************************************************)
(* The self-test of the module: verify_label_data called on the form of    *)
(* the __main__ block, or on some of its keys, and on the first lines of   *)
(* its label text                                                          *)
(***************************************************************************)
\* test_text, line by line (the literal starts with a line break and ends with
\* the four blanks before the closing quotes)
test_text_lines ==
    <<<<"\n">>,
      <<" ", " ", " ", " ", "O", "L", "D", " ", "T", "O", "M", " ", "D", "I",
        "S", "T", "I", "L", "L", "E", "R", "Y", "\n">>,
      <<" ", " ", " ", " ", "K", "e", "n", "t", "u", "c", "k", "y", " ", "S",
        "t", "r", "a", "i", "g", "h", "t", " ", "B", "o", "u", "r", "b", "o",
        "n", " ", "W", "h", "i", "s", "k", "e", "y", "\n">>,
      <<" ", " ", " ", " ", "4", "5", "%", " ", "A", "l", "c", ".", "/", "V",
        "o", "l", ".", " ", "(", "9", "0", " ", "P", "r", "o", "o", "f", ")",
        "\n">>,
      <<" ", " ", " ", " ", "7", "5", "0", " ", "m", "L", "\n">>,
      <<" ", " ", " ", " ", "\n">>,
      <<" ", " ", " ", " ", "G", "O", "V", "E", "R", "N", "M", "E", "N", "T",
        " ", "W", "A", "R", "N", "I", "N", "G", ":", " ", "(", "1", ")", " ",
        "A", "c", "c", "o", "r", "d", "i", "n", "g", " ", "t", "o", " ", "t",
        "h", "e", " ", "S", "u", "r", "g", "e", "o", "n", " ", "G", "e", "n",
        "e", "r", "a", "l", ",", " ", "\n">>,
      <<" ", " ", " ", " ", "w", "o", "m", "e", "n", " ", "s", "h", "o", "u",
        "l", "d", " ", "n", "o", "t", " ", "d", "r", "i", "n", "k", " ", "a",
        "l", "c", "o", "h", "o", "l", "i", "c", " ", "b", "e", "v", "e", "r",
        "a", "g", "e", "s", " ", "d", "u", "r", "i", "n", "g", " ", "p", "r",
        "e", "g", "n", "a", "n", "c", "y", " ", "\n">>,
      <<" ", " ", " ", " ", "b", "e", "c", "a", "u", "s", "e", " ", "o", "f",
        " ", "t", "h", "e", " ", "r", "i", "s", "k", " ", "o", "f", " ", "b",
        "i", "r", "t", "h", " ", "d", "e", "f", "e", "c", "t", "s", ".", " ",
        "(", "2", ")", " ", "C", "o", "n", "s", "u", "m", "p", "t", "i", "o",
        "n", " ", "o", "f", " ", "\n">>,
      <<" ", " ", " ", " ", "a", "l", "c", "o", "h", "o", "l", "i", "c", " ",
        "b", "e", "v", "e", "r", "a", "g", "e", "s", " ", "i", "m", "p", "a",
        "i", "r", "s", " ", "y", "o", "u", "r", " ", "a", "b", "i", "l", "i",
        "t", "y", " ", "t", "o", " ", "d", "r", "i", "v", "e", " ", "a", " ",
        "c", "a", "r", " ", "o", "r", " ", "\n">>,
      <<" ", " ", " ", " ", "o", "p", "e", "r", "a", "t", "e", " ", "m", "a",
        "c", "h", "i", "n", "e", "r", "y", ",", " ", "a", "n", "d", " ", "m",
        "a", "y", " ", "c", "a", "u", "s", "e", " ", "h", "e", "a", "l", "t",
        "h", " ", "p", "r", "o", "b", "l", "e", "m", "s", ".", "\n">>,
      <<" ", " ", " ", " ">>>>

test_text == Concat(test_text_lines)

test_form ==
    [brand_name      |-> <<"O", "l", "d", " ", "T", "o", "m", " ", "D", "i", "s", "t", "i", "l", "l", "e", "r", "y">>,
     product_type    |-> <<"K", "e", "n", "t", "u", "c", "k", "y", " ", "S", "t", "r", "a", "i", "g", "h", "t", " ", "B", "o", "u", "r", "b", "o", "n", " ", "W", "h", "i", "s", "k", "e", "y">>,
     alcohol_content |-> <<"4", "5">>,
     net_contents    |-> <<"7", "5", "0", " ", "m", "L">>]

\* test_form restricted to some of its keys
SelfTestForms == {[key \in keys |-> test_form[key]] : keys \in SUBSET FormKeys}

\* the first lines of test_text
SelfTestTexts == {Concat(SubSeq(test_text_lines, 1, n)) : n \in 0..Len(test_text_lines)}

InitSelfTest ==
    /\ args \in [form_data : SelfTestForms, extracted_text : SelfTestTexts]
    /\ called = "none"
    /\ pc = "ready"
    /\ ret = None
    /\ uploads = <<>>
    /\ locals = <<>>

NextSelfTest == CallVerifyLabelData

SpecSelfTest == InitSelfTest /\ [][NextSelfTest]_vars

\* C13: for the self-test inputs (test_form against test_text) verify_label_data
\* returns five verdicts and every one has status match
C13_SelfTestAllMatch ==
    (/\ Returned("verify_label_data")
     /\ args.form_data = test_form
     /\ args.extracted_text = test_text)
    => /\ Len(ret) = 5
       /\ \A i \in 1..Len(ret) : Status(ret[i]) = "match"

\* the self-test call has returned, one verdict for each of the five fields
C13_Witness ==
    /\ Returned("verify_label_data")
    /\ args.form_data = test_form
    /\ args.extracted_text = test_text
    /\ FieldsOf(ret) = <<"Brand Name", "Product Class/Type", "Alcohol Content",
                         "Net Contents", "Government Warning">>

(***************************************************************************)
(* The units of a match of verify_net_contents (under SpecNet)             *)
(***************************************************************************)
\* the spellings of each unit of volume the volume_patterns know, blanks removed
UnitsOfVolume ==
    {{<<"m", "l">>,
      <<"m", "i", "l", "l", "i", "l", "i", "t", "e", "r">>,
      <<"m", "i", "l", "l", "i", "l", "i", "t", "r", "e">>},
     {<<"l">>,
      <<"l", "i", "t", "e", "r">>,
      <<"l", "i", "t", "r", "e">>},
     {<<"o", "z">>,
      <<"o", "u", "n", "c", "e">>,
      <<"f", "l", "o", "z">>,
      <<"f", "l", "u", "i", "d", "o", "u", "n", "c", "e">>},
     {<<"c", "l">>,
      <<"c", "e", "n", "t", "i", "l", "i", "t", "e", "r">>}}

SameUnitOfVolume(form_unit, found_unit) ==
    \E spellings \in UnitsOfVolume : form_unit \in spellings /\ found_unit \in spellings

\* C17: when verify_net_contents returns match through the number/unit
\* fallback, some volume found on the label has a number within 1 of the form's
\* and a unit that denotes the same unit of volume as the form's: "1 l" is
\* never matched by a label that only says "1 ml", "1 cl" or "1 fl oz"
C17_MatchHasSameUnit ==
    (/\ Returned("verify_net_contents")
     /\ Truthy(args.form_contents)
     /\ ~direct_match(args.form_contents, args.extracted_text)
     /\ Status(ret) = "match")
    => LET form_normalized == normalize_text(args.form_contents)
           fm        == form_match(form_normalized)
           form_num  == float(Slice(form_normalized, fm.lo, fm.hi))
           form_unit == Slice(form_normalized, fm.ulo, fm.end)
       IN  \E v \in found_volumes(args.extracted_text) :
              SameUnitOfVolume(form_unit, v.unit) /\ WithinOne(form_num, v.num)

(***************************************************************************)
(* The /api/verify handler of backend/app.py.  A request r is a run of     *)
(* verify_label: args[r] is what the client sent, pc[r] where the run      *)
(* stands, called[r] the last function of the utils modules it called,     *)
(* locals[r] its local variables and ret[r] its response.  uploads is the  *)
(* upload folder: the files in it, by path, each with what was saved.      *)
(* The steps of a run are the accesses to the upload folder (file.save,    *)
(* the read of the OCR step, os.path.exists, os.remove) and the return;    *)
(* steps of different requests interleave.                                 *)
(***************************************************************************)
ALLOWED_EXTENSIONS ==
    {<<"p", "n", "g">>,
     <<"j", "p", "g">>,
     <<"j", "p", "e", "g">>}

UPLOAD_FOLDER == <<"u", "p", "l", "o", "a", "d", "s">>

IsUpperLetter(c) == \E i \in 1..26 : UpperLetters[i] = c

\* filename.rsplit('.', 1)[1]: what follows the last point
AfterLastPoint(filename) ==
    LET points == {i \in 1..Len(filename) : filename[i] = "."}
    IN  SubSeq(filename, SetMax(points) + 1, Len(filename))

allowed_file(filename) ==
    /\ \E i \in 1..Len(filename) : filename[i] = "."
    /\ lower(AfterLastPoint(filename)) \in ALLOWED_EXTENSIONS

\* "_".join(words)
RECURSIVE JoinUnderscore(_)
JoinUnderscore(words) ==
    IF Len(words) = 0 THEN <<>>
    ELSE IF Len(words) = 1 THEN words[1]
    ELSE words[1] \o <<"_">> \o JoinUnderscore(Tail(words))

\* str.strip("._")
StripPointsUnderscores(s) ==
    LET keep == {i \in 1..Len(s) : s[i] \notin {".", "_"}}
    IN  IF keep = {} THEN <<>> ELSE Slice(s, SetMin(keep), SetMax(keep))

\* werkzeug.utils.secure_filename on an ASCII name: the path separator becomes
\* a blank, the words are joined by "_", every character outside
\* [A-Za-z0-9_.-] is removed, and leading and trailing points and underscores
\* are stripped
secure_filename(filename) ==
    LET spaced == [i \in 1..Len(filename) |->
                        IF filename[i] = "/" THEN " " ELSE filename[i]]
        kept(c) == \/ IsLowerLetter(c) \/ IsUpperLetter(c) \/ IsDigit(c)
                   \/ c \in {"_", ".", "-"}
    IN  StripPointsUnderscores(SelectSeq(JoinUnderscore(split(spaced)), kept))

\* os.path.join(app.config['UPLOAD_FOLDER'], filename)
filepath_of(filename) == UPLOAD_FOLDER \o <<"/">> \o filename

\* request.form.get(key, '')
FormGet(form, key) == IF key \in DOMAIN form THEN form[key] ELSE <<>>

\* the form_data of lines 110-115
form_data_of(request) ==
    [brand_name      |-> strip(FormGet(request.form, "brandName")),
     product_type    |-> strip(FormGet(request.form, "productType")),
     alcohol_content |-> strip(FormGet(request.form, "alcoholContent")),
     net_contents    |-> strip(FormGet(request.form, "netContents"))]

\* abv < 0 or abv > 100
OutOfRange(abv) ==
    /\ ~abv.nan
    /\ abv.neg \/ Less(Decimal(FALSE, <<1, 0, 0>>, <<>>), abv)

\* lines 86-149: the error of the first check that fails, "none" when all pass
validation_error(request) ==
    IF "labelImage" \notin DOMAIN request.files
    THEN "No image file uploaded. Please select a label image."
    ELSE LET file      == request.files["labelImage"]
             form_data == form_data_of(request)
             abv       == float(form_data.alcohol_content)
         IN  IF file.filename = <<>>
             THEN "No file selected. Please choose an image file."
             ELSE IF ~allowed_file(file.filename)
             THEN "Invalid file type. Please upload a PNG or JPEG image."
             ELSE IF ~Truthy(form_data.brand_name) THEN "Brand name is required"
             ELSE IF ~Truthy(form_data.product_type) THEN "Product class/type is required"
             ELSE IF ~Truthy(form_data.alcohol_content) THEN "Alcohol content is required"
             ELSE IF IsValueError(abv) THEN "Alcohol content must be a valid number"
             ELSE IF OutOfRange(abv) THEN "Alcohol content must be between 0 and 100"
             ELSE "none"

\* jsonify({'error': ...}), status
ErrorResponse(status, error) == [status |-> status, body |-> [error |-> error]]

\* jsonify(response), 200 of lines 187-196
SuccessResponse(verification_results, extracted_text) ==
    [status |-> 200,
     body   |-> [success        |-> TRUE,
                 verifications  |-> verification_results,
                 extracted_text |-> SubSeq(extracted_text, 1,
                                           IF Len(extracted_text) < 1000
                                           THEN Len(extracted_text) ELSE 1000)]]

\* no response yet
NoResponse == [status |-> 0, body |-> <<>>]

\* the local variables of a run before line 110
NoLocals ==
    [form_data      |-> <<>>,
     filepath       |-> <<>>,
     extracted_text |-> <<>>,
     response       |-> NoResponse,
     exception      |-> "none",
     exists         |-> FALSE]

\* extract_text_from_image(image_path) on the upload folder as it is: the text,
\* or the exception it raises
extract_text_from_image(image_path, folder) ==
    IF image_path \notin DOMAIN folder THEN Raised("FileNotFoundError")
    ELSE IF ~folder[image_path].readable THEN Raised("UnidentifiedImageError")
    ELSE IF \/ ~Truthy(folder[image_path].text)
            \/ Len(strip(folder[image_path].text)) < 5
    THEN Raised("ValueError")
    ELSE <<"return", folder[image_path].text>>

\* lines 86-149, a check fails: the 400 response
RejectRequest(r) ==
    /\ r \in DOMAIN args
    /\ pc[r] = "received"
    /\ validation_error(args[r]) # "none"
    /\ ret' = [ret EXCEPT ![r] = ErrorResponse(400, validation_error(args[r]))]
    /\ pc' = [pc EXCEPT ![r] = "responded"]
    /\ UNCHANGED <<args, called, uploads, locals>>

\* lines 86-154, every check passes: file.save(filepath)
SaveUpload(r) ==
    /\ r \in DOMAIN args
    /\ pc[r] = "received"
    /\ validation_error(args[r]) = "none"
    /\ LET file     == args[r].files["labelImage"]
           filepath == filepath_of(secure_filename(file.filename))
       IN  /\ uploads' = [path \in DOMAIN uploads \cup {filepath} |->
                            IF path = filepath THEN file.image ELSE uploads[path]]
           /\ locals' = [locals EXCEPT ![r].form_data = form_data_of(args[r]),
                                       ![r].filepath = filepath]
    /\ pc' = [pc EXCEPT ![r] = "saved"]
    /\ UNCHANGED <<args, called, ret>>

\* line 160: the OCR step reads the file at filepath; what it raises leaves the
\* try block for the finally clause
ExtractText(r) ==
    /\ r \in DOMAIN args
    /\ pc[r] = "saved"
    /\ called' = [called EXCEPT ![r] = "extract_text_from_image"]
    /\ LET result == extract_text_from_image(locals[r].filepath, uploads)
       IN  IF result[1] = "raise"
           THEN /\ locals' = [locals EXCEPT ![r].exception = result[2]]
                /\ pc' = [pc EXCEPT ![r] = "finally"]
           ELSE /\ locals' = [locals EXCEPT ![r].extracted_text = result[2]]
                /\ pc' = [pc EXCEPT ![r] = "extracted"]
    /\ UNCHANGED <<args, ret, uploads>>

\* lines 166-196: the 400 for a text of fewer than 50 characters, or
\* verify_label_data and the 200; the return waits for the finally clause
VerifyText(r) ==
    /\ r \in DOMAIN args
    /\ pc[r] = "extracted"
    /\ LET extracted_text == locals[r].extracted_text
       IN  IF ~Truthy(extracted_text) \/ Len(strip(extracted_text)) < 50
           THEN /\ locals' = [locals EXCEPT ![r].response =
                                ErrorResponse(400, "Could not read sufficient text from the label image.")]
                /\ UNCHANGED called
           ELSE /\ called' = [called EXCEPT ![r] = "verify_label_data"]
                /\ locals' = [locals EXCEPT ![r].response =
                                SuccessResponse(verify_label_data(locals[r].form_data, extracted_text),
                                                extracted_text)]
    /\ pc' = [pc EXCEPT ![r] = "finally"]
    /\ UNCHANGED <<args, ret, uploads>>

\* the cleanup as the last statements of the try block instead of a finally
\* clause: an exception on the way skips it
CheckExists_unless_raised(r) ==
    /\ r \in DOMAIN args
    /\ pc[r] = "finally"
    /\ locals' = [locals EXCEPT ![r].exists = /\ locals[r].exception = "none"
                                              /\ locals[r].filepath \in DOMAIN uploads]
    /\ pc' = [pc EXCEPT ![r] = IF /\ locals[r].exception = "none"
                                  /\ locals[r].filepath \in DOMAIN uploads
                               THEN "exists" ELSE "returning"]
    /\ UNCHANGED <<args, called, ret, uploads>>

\* line 200 of the finally clause: os.path.exists(filepath)
CheckExists(r) ==
    /\ r \in DOMAIN args
    /\ pc[r] = "finally"
    /\ locals' = [locals EXCEPT ![r].exists = locals[r].filepath \in DOMAIN uploads]
    /\ pc' = [pc EXCEPT ![r] = IF locals[r].filepath \in DOMAIN uploads
                               THEN "exists" ELSE "returning"]
    /\ UNCHANGED <<args, called, ret, uploads>>

\* line 201: os.remove(filepath), which raises when the file is gone by now; the
\* exception replaces the pending return
RemoveUpload(r) ==
    /\ r \in DOMAIN args
    /\ pc[r] = "exists"
    /\ IF locals[r].filepath \in DOMAIN uploads
       THEN /\ uploads' = [path \in DOMAIN uploads \ {locals[r].filepath} |-> uploads[path]]
            /\ UNCHANGED locals
       ELSE /\ locals' = [locals EXCEPT ![r].exception = "FileNotFoundError"]
            /\ UNCHANGED uploads
    /\ pc' = [pc EXCEPT ![r] = "returning"]
    /\ UNCHANGED <<args, called, ret>>

\* after the finally clause: the pending return, or the 500 of lines 204-210 for
\* a pending exception
ReturnResponse(r) ==
    /\ r \in DOMAIN args
    /\ pc[r] = "returning"
    /\ ret' = [ret EXCEPT ![r] =
                IF locals[r].exception # "none"
                THEN ErrorResponse(500, "An unexpected error occurred while processing your request.")
                ELSE locals[r].response]
    /\ pc' = [pc EXCEPT ![r] = "responded"]
    /\ UNCHANGED <<args, called, uploads, locals>>

\* at most MaxRequests requests are in the server at a time
MaxRequests == 2

Requests == 1..MaxRequests

\* a step of the run of verify_label for one of the requests
NextVerifyLabel ==
    \E r \in Requests :
        \/ RejectRequest(r)
        \/ SaveUpload(r)
        \/ ExtractText(r)
        \/ VerifyText(r)
        \/ CheckExists(r)
        \/ RemoveUpload(r)
        \/ ReturnResponse(r)

\* the requests of a set of clients are received, the upload folder is empty
InitRequests(requests) ==
    /\ args \in requests
    /\ called = [r \in DOMAIN args |-> "none"]
    /\ pc = [r \in DOMAIN args |-> "received"]
    /\ ret = [r \in DOMAIN args |-> NoResponse]
    /\ uploads = <<>>
    /\ locals = [r \in DOMAIN args |-> NoLocals]

(***************************************************************************)
(* What a client sends                                                     *)
(***************************************************************************)
\* a photo of the first lines of the self-test's label, and a file that is no
\* image for PIL to open
LabelPhoto(lines) ==
    [readable |-> TRUE, text |-> Concat(SubSeq(test_text_lines, 1, lines))]

NotAnImage == [readable |-> FALSE, text |-> <<>>]

\* request.files with labelImage, or without it
FilesOf(filenames, images) ==
    UNION {[keys -> [filename : filenames, image : images]] :
                keys \in SUBSET {"labelImage"}}

FormFieldValues ==
    [brandName      |-> {<<" ", " ">>,
                         <<" ", "O", "l", "d", " ", "T", "o", "m", " ", "D", "i", "s", "t", "i", "l", "l", "e", "r", "y", " ">>},
     productType    |-> {<<>>,
                         <<"K", "e", "n", "t", "u", "c", "k", "y", " ", "S", "t", "r", "a", "i", "g", "h", "t", " ", "B", "o", "u", "r", "b", "o", "n", " ", "W", "h", "i", "s", "k", "e", "y">>},
     alcoholContent |-> {<<>>,
                         <<"a", "b", "c">>,
                         <<"1", "0", "1">>,
                         <<"-", "1">>,
                         <<"N", "a", "N">>,
                         <<" ", "4", "5", " ">>,
                         <<"1", "0", "0">>},
     netContents    |-> {<<>>,
                         <<"7", "5", "0", " ", "m", "L">>}]

\* request.form: every field, or every field but netContents
FormsSent ==
    UNION {{form \in [keys -> UNION {FormFieldValues[k] : k \in keys}] :
                \A k \in keys : form[k] \in FormFieldValues[k]} :
           keys \in {DOMAIN FormFieldValues, DOMAIN FormFieldValues \ {"netContents"}}}

(***************************************************************************)
(* One request to /api/verify                                              *)
(***************************************************************************)
RequestsSent ==
    [files : FilesOf({<<>>,
                      <<"l", "a", "b", "e", "l", ".", "t", "x", "t">>,
                      <<"l", "a", "b", "e", "l">>,
                      <<"m", "y", " ", "l", "a", "b", "e", "l", ".", "P", "N", "G">>,
                      <<".", ".", "/", "l", "a", "b", "e", "l", ".", "j", "p", "e", "g">>},
                     {LabelPhoto(1), LabelPhoto(2), LabelPhoto(5), NotAnImage}),
     form  : FormsSent]

InitVerifyLabel == InitRequests([{1} -> RequestsSent])

SpecVerifyLabel == InitVerifyLabel /\ [][NextVerifyLabel]_vars

(***************************************************************************)
(* Concurrent requests to /api/verify, every form filled in as the         *)
(* self-test's                                                             *)
(***************************************************************************)
SelfTestFormSent ==
    [brandName      |-> test_form.brand_name,
     productType    |-> test_form.product_type,
     alcoholContent |-> test_form.alcohol_content,
     netContents    |-> test_form.net_contents]

\* two uploads of different content whose names secure_filename makes one: a
\* photo of a label, and a photo that shows too little of it
UploadsSent ==
    {[filename |-> <<"m", "y", " ", "l", "a", "b", "e", "l", ".", "p", "n", "g">>,
      image    |-> LabelPhoto(3)],
     [filename |-> <<"m", "y", "_", "l", "a", "b", "e", "l", ".", "p", "n", "g">>,
      image    |-> LabelPhoto(2)]}

\* a request with one of the uploads, or without a file
ConcurrentRequests ==
    [files : UNION {[keys -> UploadsSent] : keys \in SUBSET {"labelImage"}},
     form  : {SelfTestFormSent}]

InitConcurrent == InitRequests([Requests -> ConcurrentRequests])

SpecConcurrent == InitConcurrent /\ [][NextVerifyLabel]_vars

(***************************************************************************)
(* Claims about concurrent requests                                        *)
(***************************************************************************)
\* C14: under every interleaving of two requests, whenever the OCR step of a
\* request is about to read the file at its filepath, the file exists and holds
\* the upload of that request: no other request has overwritten it, and no
\* cleanup of another request has removed it
C14_OcrReadsOwnUpload ==
    \A r \in DOMAIN args :
        pc[r] = "saved" =>
            /\ locals[r].filepath \in DOMAIN uploads
            /\ uploads[locals[r].filepath] = args[r].files["labelImage"].image

C16_VerifiedOnlyAfterChecks ==
    \A r \in DOMAIN args :
        /\ called[r] = "verify_label_data" =>
                /\ "labelImage" \in DOMAIN args[r].files
                /\ args[r].files["labelImage"].filename # <<>>
                /\ allowed_file(args[r].files["labelImage"].filename)
                /\ \A key \in {"brandName", "productType", "alcoholContent"} :
                        strip(FormGet(args[r].form, key)) # <<>>
                /\ ~IsValueError(float(strip(FormGet(args[r].form, "alcoholContent"))))
                /\ ValidPercentage(float(strip(FormGet(args[r].form, "alcoholContent"))))
                /\ Len(strip(locals[r].extracted_text)) >= 50
        /\ (pc[r] = "responded" /\ ret[r].status = 200) =>
                /\ called[r] = "verify_label_data"
                /\ ret[r].body.success = TRUE
                /\ Len(ret[r].body.verifications) \in {4, 5}
                /\ Field(ret[r].body.verifications[1]) = "Brand Name"
                /\ Field(ret[r].body.verifications[Len(ret[r].body.verifications)])
                        = "Government Warning"
        /\ (pc[r] = "responded" /\ ret[r].status # 200) =>
                /\ ret[r].status \in {400, 500}
                /\ DOMAIN ret[r].body = {"error"}

====
